---------------------------- MODULE Spec2Model ----------------------------
(***************************************************************************)
(* tildemush server, tmserver/models.py: the persisted world state         *)
(* (UserAccount, Script, ScriptRevision, Permission, GameObject, Contains) *)
(* and the operations on it.  The database is the record db of tables,     *)
(* each a set of rows; a row is a record with an integer id.  Every        *)
(* action is one committed database transaction (or one autocommitted      *)
(* statement), so the states of a behaviour are exactly the states another *)
(* session can observe.                                                    *)
(***************************************************************************)
EXTENDS Integers, Sequences, FiniteSets

VARIABLES db, pc, inst, last, succeeded, given

vars == <<db, pc, inst, last, succeeded, given>>

---------------------------------------------------------------------------
(* Bounds of the model *)

\* GameObject rows after which no further object is created
MaxObjects == 5

\* rows of Contains a table drawn as an input has at most
MaxEdges == 2

\* the sessions that may run CreateAccount concurrently
Sessions == {"s1", "s2"}

---------------------------------------------------------------------------
(* Program constants *)

None == 0
OWNER == 1
WORLD == 2
MIN_PASSWORD_LEN == 12
BAD_USERNAME_CHARS == {":", "'", "\"", ";", "%"}

\* a text is the sequence of its characters
SANCTUM_SUFFIX == <<"-", "s", "a", "n", "c", "t", "u", "m">>

Fill(c, n) == [i \in 1..n |-> c]

\* the inputs the operations are called with
Usernames == {<<"a">>, <<"b">>, <<"a", ";">>, <<"'", "b">>}
Passwords == {Fill("p", MIN_PASSWORD_LEN), Fill("p", MIN_PASSWORD_LEN - 1)}
Shortnames == {<<"b">> \o SANCTUM_SUFFIX, <<"k">>}
ObjTypes == {"item"}
Salts == {"salt1"}

---------------------------------------------------------------------------
(* Python values *)

PyStr(text) == [kind |-> "str", text |-> text]
PyBool(b) == [type |-> "bool", v |-> b]
PyTuple(t) == [type |-> "tuple", v |-> t]

\* bool(x) of Python: a tuple is true iff it is not empty
python_bool(x) == IF x.type = "tuple" THEN Len(x.v) > 0 ELSE x.v

\* str.lstrip().rstrip() on a sequence of characters
RECURSIVE lstrip(_)
lstrip(t) == IF t # <<>> /\ Head(t) \in {" ", "\n"} THEN lstrip(Tail(t)) ELSE t

RECURSIVE rstrip(_)
rstrip(t) ==
    IF t # <<>> /\ t[Len(t)] \in {" ", "\n"}
    THEN rstrip(SubSeq(t, 1, Len(t) - 1))
    ELSE t

---------------------------------------------------------------------------
(* The store *)

EmptyDb ==
    [accounts |-> {}, scripts |-> {}, revs |-> {}, perms |-> {},
     objects |-> {}, contains |-> {}]

\* the primary key a new row of the table gets
NextId(table) ==
    CHOOSE i \in 1..(Cardinality(table) + 1) : \A r \in table : r.id # i

\* `with config.get_db().atomic()': a block that raises is rolled back to
\* the state it started from
atomic_none(before, r) == r

atomic(before, r) == IF r.ok THEN r ELSE [r EXCEPT !.db = before]

---------------------------------------------------------------------------
(* UserAccount *)

BAD_USERNAME_CHARS_RE_search(username) ==
    \E i \in 1..Len(username) : username[i] \in BAD_USERNAME_CHARS

\* str.encode('utf-8'): one byte for an ASCII character, two for U+00E9
RECURSIVE utf8_encode(_)
utf8_encode(text) ==
    IF text = <<>> THEN <<>>
    ELSE (IF Head(text) = "U+00E9" THEN <<"0xC3", "0xA9">> ELSE <<Head(text)>>)
             \o utf8_encode(Tail(text))

\* bcrypt reads no more than this many bytes of a password
BCRYPT_MAX == 72

\* bcrypt.hashpw: the hash names its salt, and its digest is a one-way
\* function of the salt and of the first BCRYPT_MAX bytes; text stands for
\* the digest of those bytes
bcrypt_hashpw(bytes, salt) ==
    [kind |-> "bcrypt", salt |-> salt,
     text |-> SubSeq(bytes, 1, IF Len(bytes) < BCRYPT_MAX
                               THEN Len(bytes) ELSE BCRYPT_MAX)]

\* bcrypt.checkpw: hashes with the salt of the hash and compares
bcrypt_checkpw(bytes, hashed) ==
    /\ hashed.kind = "bcrypt"
    /\ bcrypt_hashpw(bytes, hashed.salt) = hashed

\* the bytes of a password field: of a str its encoding, of a hash the
\* hash string
password_bytes(password) ==
    IF password.kind = "str" THEN utf8_encode(password.text)
    ELSE <<"$2b$", password.salt>> \o password.text

hash_password(self, salt) ==
    [self EXCEPT !.password = bcrypt_hashpw(password_bytes(self.password), salt)]

\* UserAccount.check_password
check_password(self, plaintext_password) ==
    bcrypt_checkpw(utf8_encode(plaintext_password), self.password)

validate_nopassword(d, self) ==
    IF 0 # Cardinality({a \in d.accounts : a.username = self.username})
    THEN "username taken"
    ELSE IF BAD_USERNAME_CHARS_RE_search(self.username)
    THEN "username has invalid character"
    ELSE "ok"

\* the message of the UserValidationError raised, "ok" when none is
validate(d, self) ==
    IF 0 # Cardinality({a \in d.accounts : a.username = self.username})
    THEN "username taken"
    ELSE IF BAD_USERNAME_CHARS_RE_search(self.username)
    THEN "username has invalid character"
    ELSE IF Len(self.password.text) < MIN_PASSWORD_LEN
    THEN "password too short"
    ELSE "ok"

pre_user_save_rehash(instance, created, salt) ==
    LET i1 == IF ~created
              THEN [instance EXCEPT !.updated_at = "utcnow"]
              ELSE instance
    IN hash_password(i1, salt)

pre_user_save(instance, created, salt) ==
    LET i1 == IF ~created
              THEN [instance EXCEPT !.updated_at = "utcnow"]
              ELSE instance
    IN IF created /\ Len(i1.password.text) > 0
       THEN hash_password(i1, salt)
       ELSE i1

\* INSERT INTO useraccount, under the column's unique=True
UserAccount_insert(d, instance) ==
    IF \E a \in d.accounts : a.username = instance.username
    THEN [ok |-> FALSE, why |-> "UNIQUE useraccount.username", db |-> d]
    ELSE LET row == [instance EXCEPT !.id = NextId(d.accounts)]
         IN [ok |-> TRUE, why |-> "ok", row |-> row,
             db |-> [d EXCEPT !.accounts = @ \cup {row}]]

---------------------------------------------------------------------------
(* Script, ScriptRevision, Permission *)

\* ScriptedObjectMixin.get_template(obj_type).format(**format_dict)
get_template(obj_type) == <<"\n", " ">> \o <<obj_type>> \o <<" ", "\n">>

Script_create(d, author, name) ==
    LET row == [id |-> NextId(d.scripts), author |-> author.id, name |-> name]
    IN [row |-> row, db |-> [d EXCEPT !.scripts = @ \cup {row}]]

pre_scriptrev_save(instance) ==
    [instance EXCEPT !.code = rstrip(lstrip(instance.code))]

ScriptRevision_create(d, script, code) ==
    LET row == pre_scriptrev_save(
                   [id |-> NextId(d.revs), script |-> script.id, code |-> code])
    IN [row |-> row, db |-> [d EXCEPT !.revs = @ \cup {row}]]

\* Permission(): an instance with the field defaults, not saved yet
Permission ==
    [id |-> None, read |-> WORLD, write |-> OWNER, carry |-> WORLD,
     execute |-> WORLD]

Permission_create(d) ==
    LET row == [Permission EXCEPT !.id = NextId(d.perms)]
    IN [row |-> row, db |-> [d EXCEPT !.perms = @ \cup {row}]]

---------------------------------------------------------------------------
(* GameObject *)

\* the row an instance is stored as: BooleanField adapts its value with bool
GameObject_row(instance) ==
    [instance EXCEPT !.is_player_obj = python_bool(@),
                     !.is_sanctum = python_bool(@)]

\* the instance a row is loaded as
GameObject_instance(row) ==
    [row EXCEPT !.is_player_obj = PyBool(@), !.is_sanctum = PyBool(@)]

\* save() of an instance that has a primary key: UPDATE, and post_save with
\* created = False, which on_game_object_create ignores
GameObject_save(d, instance) ==
    [d EXCEPT !.objects =
        {o \in @ : o.id # instance.id} \cup {GameObject_row(instance)}]

on_game_object_create_noperms(d, instance, created) ==
    [obj |-> instance, db |-> d]

on_game_object_create(d, instance, created) ==
    IF ~created
    THEN [obj |-> instance, db |-> d]
    ELSE LET p == Permission_create(d)
             i1 == [instance EXCEPT !.perms = p.row.id]
         IN [obj |-> i1, db |-> GameObject_save(p.db, i1)]

\* GameObject.create(...): INSERT under shortname's unique=True, then the
\* post_save handler
GameObject_create(d, perms, author, shortname, script_revision) ==
    IF \E o \in d.objects : o.shortname = shortname
    THEN [ok |-> FALSE, why |-> "UNIQUE gameobject.shortname", db |-> d]
    ELSE LET instance ==
                 [id |-> NextId(d.objects), author |-> author.id,
                  shortname |-> shortname,
                  script_revision |-> script_revision.id,
                  is_player_obj |-> PyBool(FALSE),
                  is_sanctum |-> PyBool(FALSE), perms |-> perms.id]
             d1 == [d EXCEPT !.objects = @ \cup {GameObject_row(instance)}]
             post == on_game_object_create(d1, instance, TRUE)
         IN [ok |-> TRUE, why |-> "ok", obj |-> post.obj, db |-> post.db]

\* hookOk: whether init_scripting returns rather than raises
create_scripted_object(d, obj_type, author, shortname, hookOk) ==
    LET script_code == get_template(obj_type)
        script == Script_create(d, author, shortname)
        scriptrev == ScriptRevision_create(script.db, script.row, script_code)
        game_obj == GameObject_create(scriptrev.db, Permission, author,
                                      shortname, scriptrev.row)
    IN atomic(d,
              IF ~game_obj.ok THEN game_obj
              ELSE IF ~hookOk
              THEN [ok |-> FALSE, why |-> "init_scripting", db |-> game_obj.db]
              ELSE game_obj)

on_user_account_create_nosave(d, instance, created, hook1, hook2) ==
    IF ~created THEN [ok |-> TRUE, why |-> "ok", db |-> d]
    ELSE
    LET p == create_scripted_object(d, "player", instance,
                                    instance.username, hook1)
        s == create_scripted_object(p.db, "room", instance,
                                    instance.username \o SANCTUM_SUFFIX, hook2)
        sanctum == [s.obj EXCEPT !.is_sanctum = PyTuple(<<TRUE>>)]
    IN atomic(d,
              IF ~p.ok THEN p
              ELSE IF ~s.ok THEN s
              ELSE [ok |-> TRUE, why |-> "ok",
                    db |-> GameObject_save(s.db, sanctum)])

on_user_account_create_placed(d, instance, created, hook1, hook2) ==
    IF ~created THEN [ok |-> TRUE, why |-> "ok", db |-> d]
    ELSE
    LET p == create_scripted_object(d, "player", instance,
                                    instance.username, hook1)
        player == [p.obj EXCEPT !.is_player_obj = PyBool(TRUE)]
        d1 == GameObject_save(p.db, player)
        s == create_scripted_object(d1, "room", instance,
                                    instance.username \o SANCTUM_SUFFIX, hook2)
        sanctum == [s.obj EXCEPT !.is_sanctum = PyTuple(<<TRUE>>)]
        d2 == GameObject_save(s.db, sanctum)
    IN atomic(d,
              IF ~p.ok THEN p
              ELSE IF ~s.ok THEN s
              ELSE [ok |-> TRUE, why |-> "ok",
                    db |-> [d2 EXCEPT !.contains =
                               @ \cup {[id |-> NextId(@),
                                        outer_obj |-> s.obj.id,
                                        inner_obj |-> p.obj.id]}]])

on_user_account_create(d, instance, created, hook1, hook2) ==
    IF ~created THEN [ok |-> TRUE, why |-> "ok", db |-> d]
    ELSE
    LET p == create_scripted_object(d, "player", instance,
                                    instance.username, hook1)
        player == [p.obj EXCEPT !.is_player_obj = PyBool(TRUE)]
        d1 == GameObject_save(p.db, player)
        s == create_scripted_object(d1, "room", instance,
                                    instance.username \o SANCTUM_SUFFIX, hook2)
        sanctum == [s.obj EXCEPT !.is_sanctum = PyTuple(<<TRUE>>)]
    IN atomic(d,
              IF ~p.ok THEN p
              ELSE IF ~s.ok THEN s
              ELSE [ok |-> TRUE, why |-> "ok",
                    db |-> GameObject_save(s.db, sanctum)])

\* UserAccount.player_obj: get_or_none(author == self, is_player_obj == True)
\* is the first row of the query, None when it has no row
player_obj(d, self) ==
    LET rows == {o \in d.objects : o.author = self.id /\ o.is_player_obj = TRUE}
    IN IF rows = {} THEN None
       ELSE (CHOOSE o \in rows : \A q \in rows : o.id <= q.id).id


\* GameObject.author: the account row the foreign key names
GameObject_author(d, obj) == CHOOSE a \in d.accounts : a.id = obj.author

\* GameObject.perms: the permission row the foreign key names
GameObject_perms(d, obj) == CHOOSE p \in d.perms : p.id = obj.perms

\* UserAccount.__eq__
UserAccount_eq(self, other) ==
    IF "username" \notin DOMAIN other THEN FALSE
    ELSE self.username = other.username

can_perm_world(d, self, perm, target_obj) ==
    GameObject_perms(d, target_obj)[perm] = WORLD

can_perm(d, self, perm, target_obj) ==
    \/ UserAccount_eq(GameObject_author(d, self), GameObject_author(d, target_obj))
    \/ GameObject_perms(d, target_obj)[perm] = WORLD

can_carry(d, self, target_obj) == can_perm(d, self, "carry", target_obj)
can_read(d, self, target_obj) == can_perm(d, self, "read", target_obj)
can_write(d, self, target_obj) == can_perm(d, self, "write", target_obj)
can_execute(d, self, target_obj) == can_perm(d, self, "execute", target_obj)

\* GameObject.contains: the inner objects of the rows whose outer is self
contains(d, self) ==
    {c.inner_obj : c \in {c \in d.contains : c.outer_obj = self.id}}

contained_by_inner(d, self) ==
    LET model_set == {c \in d.contains : c.inner_obj = self.id}
    IN IF model_set = {} THEN [exc |-> "ok", value |-> None]
       ELSE IF Cardinality(model_set) > 1
       THEN [exc |-> "ClientException", value |-> None]
       ELSE [exc |-> "ok", value |-> (CHOOSE c \in model_set : TRUE).inner_obj]

contained_by_first(d, self) ==
    LET model_set == {c \in d.contains : c.inner_obj = self.id}
    IN IF model_set = {} THEN [exc |-> "ok", value |-> None]
       ELSE [exc |-> "ok",
             value |-> (CHOOSE c \in model_set :
                            \A e \in model_set : c.id <= e.id).outer_obj]

\* GameObject.contained_by: the value returned, or the exception raised
contained_by(d, self) ==
    LET model_set == {c \in d.contains : c.inner_obj = self.id}
    IN IF model_set = {} THEN [exc |-> "ok", value |-> None]
       ELSE IF Cardinality(model_set) > 1
       THEN [exc |-> "ClientException", value |-> None]
       ELSE [exc |-> "ok", value |-> (CHOOSE c \in model_set : TRUE).outer_obj]

---------------------------------------------------------------------------
(* The containment graph over the Contains table *)

\* the ids of the objects x contains, directly or not
RECURSIVE Below(_, _, _)
Below(d, xs, n) ==
    LET more == xs \cup {c.inner_obj : c \in {c \in d.contains : c.outer_obj \in xs}}
    IN IF n = 0 \/ more = xs THEN xs ELSE Below(d, more, n - 1)

Descendants(d, x) ==
    Below(d, {c.inner_obj : c \in {c \in d.contains : c.outer_obj = x}},
          Cardinality(d.objects))

PlaceInto_nocycle(d, outer, inner) ==
    LET kept == {c \in d.contains : c.inner_obj # inner.id}
        row == [id |-> NextId(kept), outer_obj |-> outer.id,
                inner_obj |-> inner.id]
    IN [ok |-> TRUE, why |-> "ok",
        db |-> [d EXCEPT !.contains = kept \cup {row}]]

PlaceInto_insertonly(d, outer, inner) ==
    IF outer.id = inner.id \/ outer.id \in Descendants(d, inner.id)
    THEN [ok |-> FALSE, why |-> "ConsistencyError", db |-> d]
    ELSE LET row == [id |-> NextId(d.contains), outer_obj |-> outer.id,
                     inner_obj |-> inner.id]
         IN [ok |-> TRUE, why |-> "ok",
             db |-> [d EXCEPT !.contains = @ \cup {row}]]

\* PlaceInto(outer, inner): one transaction that refuses a cycle, removes
\* every inbound edge of inner and inserts (outer, inner)
PlaceInto(d, outer, inner) ==
    IF outer.id = inner.id \/ outer.id \in Descendants(d, inner.id)
    THEN [ok |-> FALSE, why |-> "ConsistencyError", db |-> d]
    ELSE LET kept == {c \in d.contains : c.inner_obj # inner.id}
             row == [id |-> NextId(kept), outer_obj |-> outer.id,
                     inner_obj |-> inner.id]
         IN [ok |-> TRUE, why |-> "ok",
             db |-> [d EXCEPT !.contains = kept \cup {row}]]

RemoveFrom_anyouter(d, outer, inner) ==
    [ok |-> TRUE, why |-> "ok",
     db |-> [d EXCEPT !.contains = {c \in @ : c.inner_obj # inner.id}]]

\* RemoveFrom(outer, inner): deletes the edge, if there is one
RemoveFrom(d, outer, inner) ==
    [ok |-> TRUE, why |-> "ok",
     db |-> [d EXCEPT !.contains =
                {c \in @ : ~(c.outer_obj = outer.id /\ c.inner_obj = inner.id)}]]

---------------------------------------------------------------------------
(* The operations, as the sessions run them *)

\* what the callers passed in, kept for stating what a call must return
NoGiven == <<>>

NoInst == [id |-> None]

\* the exception class a failed step raises
Raised(why) ==
    IF why = "ok" THEN "ok"
    ELSE IF why = "init_scripting" THEN "HookError"
    ELSE IF why \in {"UNIQUE useraccount.username", "UNIQUE gameobject.shortname"}
    THEN "IntegrityError"
    ELSE "UserValidationError"

Init ==
    /\ db = EmptyDb
    /\ pc = [s \in Sessions |-> "idle"]
    /\ inst = [s \in Sessions |-> NoInst]
    /\ last = [op |-> "none"]
    /\ succeeded = {}
    /\ given = NoGiven

CreateAccountResult(instance, why) ==
    [op |-> "CreateAccount", username |-> instance.username,
     id |-> instance.id, out |-> Raised(why), why |-> why]

\* CreateAccount, first step: the instance is built and validate() queries
\* the accounts
CreateAccountValidate(s, username, password) ==
    /\ pc[s] = "idle"
    /\ LET instance == [id |-> None, username |-> username,
                        password |-> PyStr(password), updated_at |-> "None",
                        is_god |-> FALSE]
           v == validate(db, instance)
       IN IF v # "ok"
          THEN /\ last' = CreateAccountResult(instance, v)
               /\ UNCHANGED <<pc, inst>>
          ELSE /\ pc' = [pc EXCEPT ![s] = "validated"]
               /\ inst' = [inst EXCEPT ![s] = instance]
               /\ UNCHANGED last
    /\ UNCHANGED <<db, succeeded, given>>

\* CreateAccount, save(): pre_save, then the INSERT, which commits
CreateAccountInsert(s, salt) ==
    /\ pc[s] = "validated"
    /\ LET created == inst[s].id = None
           i1 == pre_user_save(inst[s], created, salt)
           r == UserAccount_insert(db, i1)
       IN IF r.ok
          THEN /\ db' = r.db
               /\ pc' = [pc EXCEPT ![s] = "inserted"]
               /\ inst' = [inst EXCEPT ![s] = r.row]
               /\ UNCHANGED last
          ELSE /\ last' = CreateAccountResult(inst[s], r.why)
               /\ pc' = [pc EXCEPT ![s] = "idle"]
               /\ inst' = [inst EXCEPT ![s] = NoInst]
               /\ UNCHANGED db
    /\ UNCHANGED <<succeeded, given>>

\* CreateAccount, save(): the post_save handler's transaction
CreateAccountPostSave(s, hook1, hook2) ==
    /\ pc[s] = "inserted"
    /\ LET r == on_user_account_create(db, inst[s], TRUE, hook1, hook2)
       IN /\ db' = r.db
          /\ last' = CreateAccountResult(inst[s], r.why)
          /\ succeeded' = IF r.ok THEN succeeded \cup {inst[s].id} ELSE succeeded
          /\ UNCHANGED given
    /\ pc' = [pc EXCEPT ![s] = "idle"]
    /\ inst' = [inst EXCEPT ![s] = NoInst]

\* the author is an account no CreateAccount call is still working on
CreateScriptedObject(obj_type, author, shortname, hookOk) ==
    /\ Cardinality(db.objects) < MaxObjects
    /\ \A s \in Sessions : pc[s] = "inserted" => inst[s].id # author.id
    /\ LET r == create_scripted_object(db, obj_type, author, shortname, hookOk)
       IN /\ db' = r.db
          /\ last' = [op |-> "CreateScriptedObject", obj_type |-> obj_type,
                      author |-> author.id, shortname |-> shortname,
                      id |-> IF r.ok THEN r.obj.id ELSE None,
                      out |-> Raised(r.why), why |-> r.why]
    /\ UNCHANGED <<pc, inst, succeeded, given>>

Next ==
    \/ \E s \in Sessions, u \in Usernames, p \in Passwords :
           CreateAccountValidate(s, u, p)
    \/ \E s \in Sessions, salt \in Salts : CreateAccountInsert(s, salt)
    \/ \E s \in Sessions, h1 \in BOOLEAN, h2 \in BOOLEAN :
           CreateAccountPostSave(s, h1, h2)
    \/ \E t \in ObjTypes, a \in db.accounts, n \in Shortnames, h \in BOOLEAN :
           CreateScriptedObject(t, a, n, h)

Spec == Init /\ [][Next]_vars

---------------------------------------------------------------------------
(* Properties of account and object creation, under Spec *)

Avatars(d, id) == {o \in d.objects : o.author = id /\ o.is_player_obj = TRUE}
Sanctums(d, id) == {o \in d.objects : o.author = id /\ o.is_sanctum = TRUE}

\* a session is between the INSERT of this account and its post_save handler
InFlight(a) == \E s \in Sessions : pc[s] = "inserted" /\ inst[s].id = a.id

ValidPair(username, password) ==
    /\ ~\E i \in 1..Len(username) : username[i] \in {":", "'", "\"", ";", "%"}
    /\ Len(password) >= 12

\* C1: every persisted Account, once the call that created it has ended,
\* owns exactly one player avatar and exactly one sanctum: a failure while
\* creating them leaves no Account row behind.
C1_AccountHasAvatarAndSanctum ==
    \A a \in db.accounts :
        InFlight(a) \/ (/\ Cardinality(Avatars(db, a.id)) = 1
                        /\ Cardinality(Sanctums(db, a.id)) = 1)

\* C2: for every account whose CreateAccount call succeeded, player_obj is
\* the one object of the account with is_player_obj = TRUE, exactly one
\* other object of the account has is_sanctum = TRUE (a boolean), and both
\* are owned by the account.
C2_SucceededHasAvatarAndSanctum ==
    \A a \in db.accounts :
        a.id \in succeeded =>
            \E p \in db.objects, s \in db.objects :
                /\ p.id = player_obj(db, a)
                /\ Avatars(db, a.id) = {p}
                /\ Sanctums(db, a.id) = {s}
                /\ s.is_sanctum \in BOOLEAN
                /\ p # s /\ ~p.is_sanctum /\ ~s.is_player_obj
                /\ p.author = a.id /\ s.author = a.id

C2_Witness ==
    /\ last.op = "CreateAccount" /\ last.out = "ok"
    /\ last.id \in succeeded
    /\ Cardinality(db.accounts) = 2

\* C3: a CreateAccount call with a valid pair succeeds when no account has
\* the username yet, and fails with the validation error when one has; at
\* most one account per username.  (A call that reaches save() has passed
\* validate: its pair is valid and the username was free.  Calls that fail
\* in the scripting hook or lose a concurrent race for the username are set
\* aside.)
C3_ValidPairSucceedsOnce ==
    /\ \A a \in db.accounts, b \in db.accounts :
           a.username = b.username => a = b
    /\ last.op = "CreateAccount" =>
           /\ last.why = "username taken" => last.out = "UserValidationError"
           /\ last.why \notin {"username taken", "username has invalid character",
                               "password too short", "init_scripting",
                               "UNIQUE useraccount.username"}
                  => last.out = "ok"

\* C4: at most one account per username, and the call that loses against
\* the store's uniqueness constraint ends with the validation error.
C4_LoserGetsValidationError ==
    /\ \A a \in db.accounts, b \in db.accounts :
           a.username = b.username => a = b
    /\ (last.op = "CreateAccount" /\ last.why = "UNIQUE useraccount.username")
           => last.out = "UserValidationError"

\* C5: a CreateAccount call with a disallowed character in the username or
\* a password shorter than 12 ends with the validation error and changes
\* no table; no account row ever has such a username or password.
C5_InvalidInputRejected ==
    /\ [](\A a \in db.accounts : ValidPair(a.username, a.password.text))
    /\ [][\A s \in Sessions, u \in Usernames, p \in Passwords :
              (CreateAccountValidate(s, u, p) /\ ~ValidPair(u, p)) =>
                  /\ last'.op = "CreateAccount" /\ last'.username = u
                  /\ last'.out = "UserValidationError"
                  /\ pc'[s] = "idle"
                  /\ db' = db]_vars

C5_Witness ==
    /\ last.op = "CreateAccount"
    /\ last.why \in {"username has invalid character", "password too short"}
    /\ db.accounts # {}

\* every object has its script revision, the revision its script, the
\* object its permission row, and no row of the four tables is outside
\* such a quadruple
FullyLinked(d) ==
    /\ \A o \in d.objects :
           /\ \E r \in d.revs :
                  /\ r.id = o.script_revision
                  /\ \E s \in d.scripts :
                         s.id = r.script /\ s.author = o.author
                         /\ s.name = o.shortname
           /\ \E p \in d.perms : p.id = o.perms
    /\ \A s \in d.scripts : \E r \in d.revs : r.script = s.id
    /\ \A r \in d.revs : \E o \in d.objects : o.script_revision = r.id
    /\ \A p \in d.perms : \E o \in d.objects : o.perms = p.id
    /\ Cardinality(d.scripts) = Cardinality(d.objects)
    /\ Cardinality(d.revs) = Cardinality(d.objects)
    /\ Cardinality(d.perms) = Cardinality(d.objects)

\* C6: CreateScriptedObject is atomic: every committed state consists of
\* fully linked (Script, ScriptRevision, GameObject, Permission) quadruples,
\* a successful call adds one, and a failed call (the scripting hook
\* included) leaves every table as it was.
C6_CreateScriptedObjectAtomic ==
    /\ []FullyLinked(db)
    /\ [][\A t \in ObjTypes, a \in db.accounts, n \in Shortnames, h \in BOOLEAN :
              CreateScriptedObject(t, a, n, h) =>
                  IF last'.out = "ok"
                  THEN /\ Cardinality(db'.objects) = Cardinality(db.objects) + 1
                       /\ \E o \in db'.objects \ db.objects :
                              o.id = last'.id /\ o.shortname = n
                              /\ o.author = a.id
                  ELSE db' = db]_vars

C6_Witness ==
    /\ last.op = "CreateScriptedObject" /\ last.out = "HookError"
    /\ db.objects # {}

\* C7: CreateScriptedObject with the shortname of an existing object fails
\* with the validation error and leaves objects, scripts and revisions as
\* they were.
C7_DuplicateShortnameValidationError ==
    [][\A t \in ObjTypes, a \in db.accounts, n \in Shortnames, h \in BOOLEAN :
           (CreateScriptedObject(t, a, n, h)
                /\ \E o \in db.objects : o.shortname = n) =>
               /\ last'.out = "UserValidationError"
               /\ db'.objects = db.objects
               /\ db'.scripts = db.scripts
               /\ db'.revs = db.revs]_vars

\* C8: in every committed state each object references one permission row,
\* which exists and is no other object's, and the row has read = WORLD,
\* write = OWNER, carry = WORLD, execute = WORLD.
C8_EveryObjectHasOwnDefaultPerms ==
    \A o \in db.objects :
        /\ o.perms # 0
        /\ Cardinality({p \in db.perms : p.id = o.perms}) = 1
        /\ \A q \in db.objects : q.perms = o.perms => q = o
        /\ \A p \in db.perms :
               p.id = o.perms =>
                   /\ p.read = 2 /\ p.write = 1
                   /\ p.carry = 2 /\ p.execute = 2

C8_Witness ==
    /\ Cardinality(db.objects) >= 3
    /\ last.op = "CreateScriptedObject" /\ last.out = "ok"

---------------------------------------------------------------------------
(* The world after the accounts "a" and "b" were created, one after the    *)
(* other                                                                   *)

Created(d, username) ==
    LET instance == [id |-> None, username |-> username,
                     password |-> PyStr(Fill("p", MIN_PASSWORD_LEN)),
                     updated_at |-> "None", is_god |-> FALSE]
        saved == UserAccount_insert(
                     d, pre_user_save(instance, TRUE, CHOOSE s \in Salts : TRUE))
    IN on_user_account_create(saved.db, saved.row, TRUE, TRUE, TRUE).db

WorldOfTwo == Created(Created(EmptyDb, <<"a">>), <<"b">>)

---------------------------------------------------------------------------
(* The permission evaluator, on every permission record *)

Axes == {"read", "write", "carry", "execute"}

\* the same world with the given values in every permission row
WithPerms(d, r, w, c, x) ==
    [d EXCEPT !.perms =
        {[p EXCEPT !.read = r, !.write = w, !.carry = c, !.execute = x] : p \in @}]

InitPerm ==
    /\ \E r \in {OWNER, WORLD}, w \in {OWNER, WORLD},
          c \in {OWNER, WORLD}, x \in {OWNER, WORLD} :
           db = WithPerms(WorldOfTwo, r, w, c, x)
    /\ pc = [s \in Sessions |-> "idle"]
    /\ inst = [s \in Sessions |-> NoInst]
    /\ last = [op |-> "none"]
    /\ succeeded = {a.id : a \in WorldOfTwo.accounts}
    /\ given = NoGiven

CanPerform(axis, actor, target) ==
    /\ last' = [op |-> "CanPerform", axis |-> axis, actor |-> actor.id,
                target |-> target.id,
                out |-> CASE axis = "read" -> can_read(db, actor, target)
                          [] axis = "write" -> can_write(db, actor, target)
                          [] axis = "carry" -> can_carry(db, actor, target)
                          [] axis = "execute" -> can_execute(db, actor, target)]
    /\ UNCHANGED <<db, pc, inst, succeeded, given>>

NextPerm ==
    \E axis \in Axes, actor \in db.objects, target \in db.objects :
        CanPerform(axis, actor, target)

SpecPerm == InitPerm /\ [][NextPerm]_vars

\* C9: CanPerform(axis, actor, target) is true when actor and target are
\* owned by the same account, whatever the axis value, and otherwise is
\* true exactly when the target's permission record has WORLD on the axis;
\* it changes no row.
C9_CanPerform ==
    /\ [](last.op = "CanPerform" =>
            \E actor \in db.objects, target \in db.objects :
                /\ actor.id = last.actor /\ target.id = last.target
                /\ \E p \in db.perms :
                       /\ p.id = target.perms
                       /\ IF actor.author = target.author
                          THEN last.out = TRUE
                          ELSE last.out = (p[last.axis] = 2))
    /\ [][db' = db]_vars

C9_Witness ==
    /\ last.op = "CanPerform" /\ last.axis = "execute" /\ last.out = TRUE
    /\ \E actor \in db.objects, target \in db.objects :
           /\ actor.id = last.actor /\ target.id = last.target
           /\ actor # target /\ actor.author = target.author
           /\ \A p \in db.perms : p.execute = 1

---------------------------------------------------------------------------
(* Moves in the containment graph *)

InitGraph ==
    /\ db = WorldOfTwo
    /\ pc = [s \in Sessions |-> "idle"]
    /\ inst = [s \in Sessions |-> NoInst]
    /\ last = [op |-> "none"]
    /\ succeeded = {a.id : a \in WorldOfTwo.accounts}
    /\ given = NoGiven

PlaceIntoCall(outer, inner) ==
    /\ LET r == PlaceInto(db, outer, inner)
       IN /\ db' = r.db
          /\ last' = [op |-> "PlaceInto", outer |-> outer.id,
                      inner |-> inner.id,
                      was |-> contained_by(db, inner).value,
                      out |-> r.why]
    /\ UNCHANGED <<pc, inst, succeeded, given>>

RemoveFromCall(outer, inner) ==
    /\ LET r == RemoveFrom(db, outer, inner)
       IN /\ db' = r.db
          /\ last' = [op |-> "RemoveFrom", outer |-> outer.id,
                      inner |-> inner.id,
                      was |-> contained_by(db, inner).value,
                      out |-> r.why]
    /\ UNCHANGED <<pc, inst, succeeded, given>>

\* the object row of an id
GameObject_get(d, id) == CHOOSE o \in d.objects : o.id = id

AudienceOf_intersection(d, account) ==
    LET p == player_obj(d, account)
        room == contained_by(d, GameObject_get(d, p))
    IN IF room.exc # "ok" THEN [exc |-> room.exc, value |-> {}]
       ELSE IF room.value = None
       THEN [exc |-> "ok", value |-> {p} \cap contains(d, GameObject_get(d, p))]
       ELSE [exc |-> "ok",
             value |-> (({p} \cap contains(d, GameObject_get(d, p)))
                           \cap {room.value})
                           \cap contains(d, GameObject_get(d, room.value))]

\* the audience of an account: its avatar, what the avatar contains, the
\* object the avatar is in and what that object contains; the queries are
\* player_obj, contains and contained_by, whose exception passes through
AudienceOf(d, account) ==
    LET p == player_obj(d, account)
        room == contained_by(d, GameObject_get(d, p))
    IN IF p = None THEN [exc |-> "ok", value |-> {}]
       ELSE IF room.exc # "ok" THEN [exc |-> room.exc, value |-> {}]
       ELSE IF room.value = None
       THEN [exc |-> "ok", value |-> {p} \cup contains(d, GameObject_get(d, p))]
       ELSE [exc |-> "ok",
             value |-> (({p} \cup contains(d, GameObject_get(d, p)))
                           \cup {room.value})
                           \cup contains(d, GameObject_get(d, room.value))]

AudienceOfCall(account) ==
    /\ last' = [op |-> "AudienceOf", account |-> account.id,
                out |-> AudienceOf(db, account).exc,
                value |-> AudienceOf(db, account).value]
    /\ UNCHANGED <<db, pc, inst, succeeded, given>>

NextGraph ==
    \/ \E outer \in db.objects, inner \in db.objects : PlaceIntoCall(outer, inner)
    \/ \E outer \in db.objects, inner \in db.objects : RemoveFromCall(outer, inner)
    \/ \E account \in db.accounts : AudienceOfCall(account)

SpecGraph == InitGraph /\ [][NextGraph]_vars

\* C10: after PlaceInto(B, inner), also when inner was in another container
\* A before, contained_by of inner returns B and not A, and inner has
\* exactly one inbound row in Contains.
C10_ReparentGivesNewParent ==
    (last.op = "PlaceInto" /\ last.out = "ok") =>
        \E inner \in db.objects :
            /\ inner.id = last.inner
            /\ contained_by(db, inner) = [exc |-> "ok", value |-> last.outer]
            /\ last.was # last.outer => contained_by(db, inner).value # last.was
            /\ Cardinality({c \in db.contains : c.inner_obj = inner.id}) = 1

C10_Witness ==
    /\ last.op = "PlaceInto" /\ last.out = "ok"
    /\ last.was # 0 /\ last.was # last.outer
    /\ \E c \in db.contains : c.inner_obj = last.inner /\ c.outer_obj = last.outer

\* the pairs <<x, y>> of object ids with x containing y, directly or through
\* other objects
RECURSIVE Closure(_, _)
Closure(rel, n) ==
    LET step == rel \cup {<<p[1][1], p[2][2]>> :
                              p \in {q \in rel \X rel : q[1][2] = q[2][1]}}
    IN IF n = 0 \/ step = rel THEN rel ELSE Closure(step, n - 1)

ContainsPlus(d) ==
    Closure({<<c.outer_obj, c.inner_obj>> : c \in d.contains},
            Cardinality(d.objects))

Inbound(d, id) == {c \in d.contains : c.inner_obj = id}

\* C11: the rows of Contains form a forest in every state reached by
\* PlaceInto and RemoveFrom calls: no object has more than one inbound row
\* and no object contains itself, directly or not; a PlaceInto that would
\* make an object its own ancestor fails with ConsistencyError and leaves
\* the rows as they were.
C11_ContainmentIsForest ==
    /\ [](/\ \A o \in db.objects : Cardinality(Inbound(db, o.id)) <= 1
          /\ \A o \in db.objects : <<o.id, o.id>> \notin ContainsPlus(db))
    /\ [][\A outer \in db.objects, inner \in db.objects :
              (/\ PlaceIntoCall(outer, inner)
               /\ \/ outer.id = inner.id
                  \/ <<inner.id, outer.id>> \in ContainsPlus(db)) =>
                  /\ last'.out = "ConsistencyError"
                  /\ db'.contains = db.contains]_vars

C11_Witness ==
    /\ last.op = "PlaceInto" /\ last.out = "ConsistencyError"
    /\ last.outer # last.inner
    /\ <<last.inner, last.outer>> \in ContainsPlus(db)
    /\ \E c \in db.contains : c.inner_obj = last.inner

C18_RemoveAbsentEdgeIsNoOp ==
    [][\A outer \in db.objects, inner \in db.objects :
           (/\ RemoveFromCall(outer, inner)
            /\ ~\E c \in db.contains :
                   c.outer_obj = outer.id /\ c.inner_obj = inner.id) =>
               /\ last'.out = "ok"
               /\ db'.contains = db.contains
               /\ db' = db]_vars

C18_Witness ==
    /\ last.op = "RemoveFrom" /\ last.out = "ok"
    /\ last.was # 0 /\ last.was # last.outer
    /\ \E c \in db.contains : c.inner_obj = last.inner

---------------------------------------------------------------------------
(* contained_by on any Contains table: the table has no constraint, so any *)
(* rows over the objects can be in it                                      *)

ObjectIds(d) == {o.id : o \in d.objects}

\* the tables of at most MaxEdges rows over the objects of d
ContainsTables(d) ==
    UNION {{{[id |-> i, outer_obj |-> f[i][1], inner_obj |-> f[i][2]] : i \in 1..n} :
               f \in [1..n -> ObjectIds(d) \X ObjectIds(d)]} : n \in 0..MaxEdges}

InitEdges ==
    /\ \E rows \in ContainsTables(WorldOfTwo) :
           db = [WorldOfTwo EXCEPT !.contains = rows]
    /\ pc = [s \in Sessions |-> "idle"]
    /\ inst = [s \in Sessions |-> NoInst]
    /\ last = [op |-> "none"]
    /\ succeeded = {a.id : a \in WorldOfTwo.accounts}
    /\ given = NoGiven

ContainedByCall(obj) ==
    /\ last' = [op |-> "contained_by", obj |-> obj.id,
                exc |-> contained_by(db, obj).exc,
                value |-> contained_by(db, obj).value]
    /\ UNCHANGED <<db, pc, inst, succeeded, given>>

NextEdges == \E obj \in db.objects : ContainedByCall(obj)

SpecEdges == InitEdges /\ [][NextEdges]_vars

\* C13: contained_by returns None for an object with no inbound row, the
\* outer object of the row for an object with exactly one, and for an
\* object with more than one it raises and returns no object.
C13_ParentOfNoneOneOrError ==
    last.op = "contained_by" =>
        LET rows == {c \in db.contains : c.inner_obj = last.obj}
        IN /\ rows = {} => (last.exc = "ok" /\ last.value = 0)
           /\ Cardinality(rows) = 1 =>
                  (last.exc = "ok" /\ \A c \in rows : last.value = c.outer_obj)
           /\ Cardinality(rows) > 1 =>
                  (last.exc = "ClientException" /\ last.value = 0)

C13_Witness ==
    /\ last.op = "contained_by" /\ last.exc = "ClientException"
    /\ \E c \in db.contains, e \in db.contains :
           /\ c.inner_obj = last.obj /\ e.inner_obj = last.obj
           /\ c.outer_obj # e.outer_obj

---------------------------------------------------------------------------
(* player_obj on any authors and is_player_obj flags of the objects *)

\* the same world with the author and the flag of every object drawn
InitAvatar ==
    /\ \E f \in [ObjectIds(WorldOfTwo) ->
                    {a.id : a \in WorldOfTwo.accounts} \X BOOLEAN] :
           db = [WorldOfTwo EXCEPT !.objects =
                    {[o EXCEPT !.author = f[o.id][1],
                               !.is_player_obj = f[o.id][2]] : o \in @}]
    /\ pc = [s \in Sessions |-> "idle"]
    /\ inst = [s \in Sessions |-> NoInst]
    /\ last = [op |-> "none"]
    /\ succeeded = {a.id : a \in WorldOfTwo.accounts}
    /\ given = NoGiven

\* get_or_none raises nothing, whatever the number of rows
PlayerObjCall(account) ==
    /\ last' = [op |-> "player_obj", account |-> account.id, exc |-> "ok",
                value |-> player_obj(db, account)]
    /\ UNCHANGED <<db, pc, inst, succeeded, given>>

NextAvatar == \E account \in db.accounts : PlayerObjCall(account)

SpecAvatar == InitAvatar /\ [][NextAvatar]_vars

\* C14: player_obj returns None when the account has no object with
\* is_player_obj, that object when it has exactly one, and raises rather
\* than return one of them when it has more than one.
C14_PlayerObjNoneOneOrError ==
    last.op = "player_obj" =>
        LET rows == {o \in db.objects :
                         o.author = last.account /\ o.is_player_obj}
        IN /\ rows = {} => (last.exc = "ok" /\ last.value = 0)
           /\ Cardinality(rows) = 1 =>
                  (last.exc = "ok" /\ \A o \in rows : last.value = o.id)
           /\ Cardinality(rows) > 1 => (last.exc # "ok" /\ last.value = 0)

\* C15: AudienceOf of an account whose avatar is P is the set of P, the
\* objects P contains, the object P is in if there is one, and the objects
\* that object contains; no object that contains the object P is in is in
\* the set.
C15_AudienceIsUnionOfRoomAndInventory ==
    last.op = "AudienceOf" =>
        \E P \in db.objects :
            /\ P.author = last.account /\ P.is_player_obj = TRUE
            /\ last.out = "ok"
            /\ last.value =
                   {o.id : o \in {o \in db.objects :
                       \/ o = P
                       \/ \E c \in db.contains :
                              c.outer_obj = P.id /\ c.inner_obj = o.id
                       \/ \E c \in db.contains :
                              c.outer_obj = o.id /\ c.inner_obj = P.id
                       \/ \E c \in db.contains, e \in db.contains :
                              /\ e.inner_obj = P.id
                              /\ c.outer_obj = e.outer_obj
                              /\ c.inner_obj = o.id}}
            /\ \A e \in db.contains, g \in db.contains :
                   (e.inner_obj = P.id /\ g.inner_obj = e.outer_obj) =>
                       g.outer_obj \notin last.value

\* room 2 contains avatar 1 and item 3, avatar 1 contains item 4
C15_Witness ==
    /\ last.op = "AudienceOf" /\ last.account = 1
    /\ {<<c.outer_obj, c.inner_obj>> : c \in db.contains} =
           {<<2, 1>>, <<2, 3>>, <<1, 4>>}
    /\ last.value = {1, 4, 2, 3}

---------------------------------------------------------------------------
(* Equality and hashing of GameObject values *)

NO_REVISION == -1

GameObject_eq_nosentinel(d, self, other) ==
    /\ GameObject_author(d, self).username = GameObject_author(d, other).username
    /\ self.shortname = other.shortname
    /\ \/ self.script_revision = None
       \/ other.script_revision = None
       \/ self.script_revision = other.script_revision

\* GameObject.__eq__
GameObject_eq(d, self, other) ==
    LET script_revision == IF self.script_revision # None
                           THEN self.script_revision ELSE NO_REVISION
        other_revision == IF other.script_revision # None
                          THEN other.script_revision ELSE NO_REVISION
    IN /\ GameObject_author(d, self).username = GameObject_author(d, other).username
       /\ self.shortname = other.shortname
       /\ script_revision = other_revision

\* GameObject.__hash__: hash of a tuple is a function of the tuple's value
GameObject_hash(d, self) ==
    LET script_revision == IF self.script_revision # None
                           THEN self.script_revision ELSE NO_REVISION
    IN [hash_of |-> <<GameObject_author(d, self).username, self.shortname,
                      script_revision>>]

RevisionIds == {None, 1, 2}

\* GameObject values a caller can hold: loaded at different times, a row can
\* be in hand with different revisions, and unsaved values share shortnames
GameObjectValues(d) ==
    {[id |-> i, author |-> a.id, shortname |-> n, script_revision |-> r] :
        i \in {1, 2}, a \in d.accounts, n \in Shortnames, r \in RevisionIds}

InitEq ==
    /\ db = WorldOfTwo
    /\ pc = [s \in Sessions |-> "idle"]
    /\ inst = [s \in Sessions |-> NoInst]
    /\ last = [op |-> "none"]
    /\ succeeded = {a.id : a \in WorldOfTwo.accounts}
    /\ \E x \in GameObjectValues(db), y \in GameObjectValues(db),
          z \in GameObjectValues(db) : given = [x |-> x, y |-> y, z |-> z]

\* the comparisons and hashes of the three values in hand
GameObjectEqCall(x, y, z) ==
    /\ last' = [op |-> "GameObject_eq", x |-> x, y |-> y, z |-> z,
                xx |-> GameObject_eq(db, x, x),
                xy |-> GameObject_eq(db, x, y),
                yx |-> GameObject_eq(db, y, x),
                yz |-> GameObject_eq(db, y, z),
                xz |-> GameObject_eq(db, x, z),
                hx |-> GameObject_hash(db, x),
                hy |-> GameObject_hash(db, y)]
    /\ UNCHANGED <<db, pc, inst, succeeded, given>>

NextEq == GameObjectEqCall(given.x, given.y, given.z)

SpecEq == InitEq /\ [][NextEq]_vars

\* C17: two GameObject values are equal exactly when their authors have the
\* same username, their shortnames are the same and their script revisions
\* are the same one or both missing; equal values have the same hash; the
\* relation is reflexive, symmetric and transitive.
C17_EqualityOnTripleAndHash ==
    last.op = "GameObject_eq" =>
        /\ last.xy =
               (/\ \E a \in db.accounts, b \in db.accounts :
                       /\ a.id = last.x.author /\ b.id = last.y.author
                       /\ a.username = b.username
                /\ last.x.shortname = last.y.shortname
                /\ \/ last.x.script_revision = 0 /\ last.y.script_revision = 0
                   \/ /\ last.x.script_revision # 0
                      /\ last.y.script_revision # 0
                      /\ last.x.script_revision = last.y.script_revision)
        /\ last.xy => last.hx = last.hy
        /\ last.xx
        /\ last.xy = last.yx
        /\ (last.xy /\ last.yz) => last.xz

\* two values of different ids, both without a revision, compare equal
C17_Witness ==
    /\ last.op = "GameObject_eq"
    /\ last.x.id # last.y.id
    /\ last.x.script_revision = 0 /\ last.y.script_revision = 0
    /\ last.xy /\ last.hx = last.hy
    /\ last.z.script_revision # 0 /\ ~last.xz

---------------------------------------------------------------------------
(* Creation in a world that has rows in Contains *)

\* the account "a" exists and its two objects were moved about, or not
InitSettled ==
    /\ \E rows \in {r \in ContainsTables(Created(EmptyDb, <<"a">>)) :
                        /\ Cardinality(r) <= 1
                        /\ \A c \in r : c.outer_obj # c.inner_obj} :
           db = [Created(EmptyDb, <<"a">>) EXCEPT !.contains = rows]
    /\ pc = [s \in Sessions |-> "idle"]
    /\ inst = [s \in Sessions |-> NoInst]
    /\ last = [op |-> "none"]
    /\ succeeded = {a.id : a \in Created(EmptyDb, <<"a">>).accounts}
    /\ given = NoGiven

SpecSettled == InitSettled /\ [][Next]_vars

\* C19: no step of CreateAccount or CreateScriptedObject adds, removes or
\* changes a row of Contains, and no row of Contains names an object the
\* step created: the avatar and the sanctum of a new account are in nothing
\* and contain nothing.
C19_CreationLeavesContainsAlone ==
    [][/\ db'.contains = db.contains
       /\ \A o \in db'.objects :
              (\A q \in db.objects : q.id # o.id) =>
                  \A c \in db'.contains :
                      c.outer_obj # o.id /\ c.inner_obj # o.id]_vars

\* the account "b" was created next to the moved objects of "a"
C19_Witness ==
    /\ last.op = "CreateAccount" /\ last.out = "ok"
    /\ db.contains # {}
    /\ \E a \in db.accounts :
           /\ a.username = <<"b">>
           /\ \E o \in db.objects : o.author = a.id /\ o.is_player_obj = TRUE
           /\ \E o \in db.objects : o.author = a.id /\ o.is_sanctum = TRUE
           /\ \A o \in db.objects, c \in db.contains :
                  o.author = a.id =>
                      c.outer_obj # o.id /\ c.inner_obj # o.id

---------------------------------------------------------------------------
(* Passwords: accounts are created, saved again and logged into *)

PasswordsTried ==
    {Fill("p", MIN_PASSWORD_LEN), Fill("q", MIN_PASSWORD_LEN),
     <<"U+00E9">> \o Fill("p", MIN_PASSWORD_LEN - 1),
     Fill("p", BCRYPT_MAX) \o <<"x">>, Fill("p", BCRYPT_MAX) \o <<"y">>,
     Fill("p", MIN_PASSWORD_LEN - 1)}

InitPw ==
    /\ db = EmptyDb
    /\ pc = [s \in Sessions |-> "idle"]
    /\ inst = [s \in Sessions |-> NoInst]
    /\ last = [op |-> "none"]
    /\ succeeded = {}
    /\ given = NoGiven

\* CreateAccount by one caller at a time, init_scripting raising nothing:
\* validate(), then save() with its pre_save and post_save handlers; given
\* keeps the plaintext of each account created
CreateAccountCall(username, password, salt) ==
    /\ LET instance == [id |-> None, username |-> username,
                        password |-> PyStr(password), updated_at |-> "None",
                        is_god |-> FALSE]
           v == validate(db, instance)
           r == UserAccount_insert(db, pre_user_save(instance, TRUE, salt))
           c == on_user_account_create(r.db, r.row, TRUE, TRUE, TRUE)
       IN IF v # "ok"
          THEN /\ last' = CreateAccountResult(instance, v)
               /\ UNCHANGED <<db, succeeded, given>>
          ELSE /\ db' = c.db
               /\ last' = CreateAccountResult(r.row, c.why)
               /\ succeeded' = succeeded \cup {r.row.id}
               /\ given' = [i \in DOMAIN given \cup {r.row.id} |->
                               IF i = r.row.id THEN password ELSE given[i]]
    /\ UNCHANGED <<pc, inst>>

\* save() of an account loaded from its row: pre_save with created False,
\* the UPDATE, and post_save with created False
SaveAccountCall(account, salt) ==
    /\ LET created == account.id = None
           i1 == pre_user_save(account, created, salt)
       IN /\ db' = on_user_account_create(
                       [db EXCEPT !.accounts =
                           {a \in @ : a.id # i1.id} \cup {i1}],
                       i1, created, TRUE, TRUE).db
          /\ last' = [op |-> "save", account |-> account.id, out |-> "ok"]
    /\ UNCHANGED <<pc, inst, succeeded, given>>

CheckPasswordCall(account, plaintext_password) ==
    /\ last' = [op |-> "check_password", account |-> account.id,
                q |-> plaintext_password,
                out |-> check_password(account, plaintext_password)]
    /\ UNCHANGED <<db, pc, inst, succeeded, given>>

NextPw ==
    \/ \E u \in Usernames, p \in PasswordsTried, salt \in Salts :
           CreateAccountCall(u, p, salt)
    \/ \E a \in db.accounts, salt \in Salts : SaveAccountCall(a, salt)
    \/ \E a \in db.accounts, q \in PasswordsTried : CheckPasswordCall(a, q)

SpecPw == InitPw /\ [][NextPw]_vars

\* C16: the password stored for an account created with plaintext p is
\* never p, check_password of the account returns True for p and returns
\* False for every q other than p.
C16_CheckPasswordExactlyThePlaintext ==
    /\ \A a \in db.accounts :
           /\ a.password # PyStr(given[a.id])
           /\ a.password.kind = "bcrypt"
    /\ last.op = "check_password" =>
           last.out = (last.q = given[last.account])

\* C20: a save of an existing account sets updated_at and changes nothing
\* else, so the password stays the hash made by the save that created the
\* account, and check_password of the plaintext the account was created
\* with returns True, before and after any saves.
C20_HashedOnceOnCreation ==
    /\ [](/\ \A a \in db.accounts : a.password.kind = "bcrypt"
          /\ (last.op = "check_password" /\ last.q = given[last.account]) =>
                 last.out = TRUE)
    /\ [][\A a \in db.accounts, salt \in Salts :
              SaveAccountCall(a, salt) =>
                  /\ db'.accounts =
                         {IF b.id = a.id
                          THEN [b EXCEPT !.updated_at = "utcnow"]
                          ELSE b : b \in db.accounts}
                  /\ \A b \in db'.accounts :
                         b.id = a.id => b.password = a.password]_vars

\* the plaintext is accepted for an account that was saved after creation
C20_Witness ==
    /\ last.op = "check_password" /\ last.out = TRUE
    /\ last.q = given[last.account]
    /\ \E a \in db.accounts :
           a.id = last.account /\ a.updated_at = "utcnow"

===========================================================================
